---- MODULE Spec2Model ----
(***************************************************************************)
(* Search plugin of Roam (src/plugins/search_plugin/search.py): the index  *)
(* build pipeline (IndexBuilder), the settings validation, the rank        *)
(* function and the query handler of SearchPlugin, as a state machine.     *)
(*                                                                         *)
(* Text is modelled as its token sequence (what the fts4 tokenizer sees).  *)
(* Scores are exact fractions <<numerator, denominator>>; weights are      *)
(* given in tenths (1.0 is 10, 0.1 is 1), so a score is in tenths too.     *)
(***************************************************************************)
EXTENDS Integers, Sequences, FiniteSets, TLC

VARIABLES
    project,      \* self.project: the loaded project (loaded = FALSE: None)
    dbpath,       \* self.dbpath: "None" or the path of the index artifact
    searchbox,    \* self.searchbox: [enabled, visible]
    resultsView,  \* self.resultsView: [enabled, items]
    indexthread,  \* self.indexthread / self.indexbuilder: 0 (None) or a worker id
    workers,      \* every QThread + IndexBuilder pair started so far
    mainQueue,    \* queued slot invocations waiting for the main thread
    layers,       \* the vector layers the layer registry holds
    db,           \* the index artifact index.db
    crashed,      \* the host process was aborted
    validation,   \* the last build_index: what valid_search_settings returned
    lastSearch,   \* what the last call of search did
    rankIn,       \* the arguments of the last call of a rank function
    rankOut       \* its outcome

vars == <<project, dbpath, searchbox, resultsView, indexthread, workers,
          mainQueue, layers, db, crashed, validation, lastSearch, rankIn,
          rankOut>>

plugin_vars == <<project, dbpath, searchbox, resultsView, indexthread, workers,
                 mainQueue, layers, db, crashed, validation, lastSearch>>

\* ---------------------------------------------------------------- bounds

\* Threads started over one run of the plugin.
MaxBuilds == 2

\* (phrase, column) positions of a match-statistics sequence.
MaxPositions == 2

\* Messages the results list may pile up while no project is loaded.
MaxMessages == 1

\* ------------------------------------------------------------- utilities

Range(s) == {s[i] : i \in 1..Len(s)}

Max(a, b) == IF a >= b THEN a ELSE b

\* The sequences over S of length 0..n.
SeqsUpTo(S, n) == UNION {[1..k -> S] : k \in 0..n}

\* Fractions: <<n, d>> with d > 0.
RatAdd(a, b) == <<a[1] * b[2] + b[1] * a[2], a[2] * b[2]>>

RatEq(a, b) == a[1] * b[2] = b[1] * a[2]

RatGeq(a, b) == a[1] * b[2] >= b[1] * a[2]

\* ---------------------------------------------------------- rank function

\* The weights the query connection registers "rank" with: (1., .1, 0, 0).
DefaultWeights == <<10, 1, 0, 0>>

\* zip(it, it, it) over matchinfo[2:]: the k-th complete triple.
Triple(matchinfo, k) ==
    <<matchinfo[3 * k], matchinfo[3 * k + 1], matchinfo[3 * k + 2]>>

\* How many (triple, weight) pairs zip(zip(it, it, it), weights) yields.
Positions(matchinfo, weights) ==
    LET triples == (Max(Len(matchinfo), 2) - 2) \div 3
    IN  IF triples <= Len(weights) THEN triples ELSE Len(weights)

\* One term of the sum: x[0]*w/x[1] if x[1], with x = (hits in this row,
\* hits in all rows, rows with hits); a term the filter drops adds 0.
Term(x, w) == IF x[2] # 0 THEN <<x[1] * w, x[2]>> ELSE <<0, 1>>

RECURSIVE RankSum(_, _, _)
RankSum(matchinfo, weights, k) ==
    IF k = 0 THEN <<0, 1>>
    ELSE RatAdd(RankSum(matchinfo, weights, k - 1),
                Term(Triple(matchinfo, k), weights[k]))

\* sum(x[0]*w/x[1] for x, w in zip(zip(it, it, it), weights) if x[1])
RankScore(matchinfo, weights) ==
    RankSum(matchinfo, weights, Positions(matchinfo, weights))

\* rank(matchinfo): the blob is first unpacked with
\* struct.unpack("I"*(len(matchinfo)/4), matchinfo).  Where "/" on two ints is
\* the floor division the repetition count is an int and the words are
\* unpacked; where it is the true division the count is a float and the
\* repetition raises TypeError before anything is summed.
rank(matchinfo, weights, floordiv) ==
    IF floordiv
    THEN [called |-> TRUE, raised |-> "none",
          score |-> RankScore(matchinfo, weights)]
    ELSE [called |-> TRUE, raised |-> "TypeError", score |-> <<0, 1>>]

NoRank == [called |-> FALSE, raised |-> "none", score |-> <<0, 1>>]

\* ------------------------------------------------- layers and settings

\* The vector layers of the workspace, in the registry's enumeration order.
\* A feature's attribute is its value as str() renders it, in tokens.
VectorLayers ==
    << [name |-> "roads", fields |-> <<"name">>,
        features |->
          << [id |-> 1, attrs |-> [name |-> <<"hydrant">>]],
             [id |-> 2, attrs |-> [name |-> <<"hydrant", "hydrant">>]] >>],
       [name |-> "parks", fields |-> <<"name", "kind">>,
        features |->
          << [id |-> 1, attrs |-> [name |-> <<"pond">>,
                                   kind |-> <<"hydrant">>]] >>] >>

\* Layer selectors of a 'search' mapping; "ghost" names no loaded layer.
Selectors == {"_all", "roads", "parks", "ghost"}

ColumnLists == {<<"name">>, <<"kind">>, <<"name", "kind">>}

\* A layer entry: with a 'columns' key, or without one.
LayerEntries ==
    [selector : Selectors, hasColumns : {TRUE}, columns : ColumnLists]
      \cup [selector : Selectors, hasColumns : {FALSE}, columns : {<<>>}]

\* Entries of a 'search' mapping.
MaxEntries == 3

\* A mapping keeps its keys distinct and iterates in insertion order.
SearchMappings ==
    {m \in SeqsUpTo(LayerEntries, MaxEntries) :
        /\ Len(m) >= 1
        /\ \A i, j \in 1..Len(m) : i # j => m[i].selector # m[j].selector}

NoProject == [loaded |-> FALSE, hasSearch |-> FALSE, search |-> <<>>]

\* project.settings: with a 'search' mapping, or without the key.
AllProjects ==
    {[loaded |-> TRUE, hasSearch |-> TRUE, search |-> m] : m \in SearchMappings}
      \cup {[loaded |-> TRUE, hasSearch |-> FALSE, search |-> <<>>]}

\* ------------------------------------------------ valid_search_settings

\* for layerconfig in settings.values(): columns = layerconfig['columns']
\* from the i-th entry on; FALSE is the KeyError of a missing key.
RECURSIVE ColumnsLookup(_, _)
ColumnsLookup(search, i) ==
    IF i > Len(search) THEN TRUE
    ELSE IF ~search[i].hasColumns THEN FALSE
    ELSE ColumnsLookup(search, i + 1)

\* Only the first entry is looked at.
valid_search_settings_first(settings) ==
    IF ~settings.hasSearch \/ (Len(settings.search) >= 1
                               /\ ~settings.search[1].hasColumns)
    THEN [ok |-> FALSE, settings |-> <<>>]
    ELSE [ok |-> TRUE, settings |-> settings.search]

valid_search_settings(settings) ==
    IF ~settings.hasSearch THEN [ok |-> FALSE, settings |-> <<>>]
    ELSE IF ColumnsLookup(settings.search, 1)
         THEN [ok |-> TRUE, settings |-> settings.search]
         ELSE [ok |-> FALSE, settings |-> <<>>]

NoValidation == [called |-> FALSE, ok |-> FALSE, settings |-> <<>>,
                 raised |-> "none"]

\* --------------------------------------------------- feature extraction

\* '"{}"'.format(c): the quoted SQL identifier of column c.
Quote(c) == [ident |-> c]

\* str("{}: {}").format(field, value), as the tokenizer splits it.
Render(field, value) == <<field>> \o value

\* roam.api.utils.layer_by_name(name): the layers of that name; the code takes
\* the first and gets IndexError when there is none.
LayersNamed(loaded, name) == SelectSeq(loaded, LAMBDA l : l.name = name)

\* get_data(layer, config, rowid): one record per feature of the layer, with
\* the fields the layer and the configuration share; none without such fields.
get_data(layer, config, rowid) ==
    LET fields == Range(layer.fields) \cap Range(config.columns)
    IN  IF fields = {} THEN <<>>
        ELSE [k \in 1..Len(layer.features) |->
                 LET feature == layer.features[k]
                 IN  [count |-> rowid + k,
                      layer |-> layer.name,
                      fid |-> feature.id,
                      data |-> [q \in {Quote(f) : f \in fields} |->
                                   Render(q.ident, feature.attrs[q.ident])]]]

\* The loop body resumes after each yield without touching rowid.
RowidKept(rowid, records) == rowid

\* rowid = count, after each record the inner generator yields.
RowidAfter(rowid, records) ==
    IF records = <<>> THEN rowid ELSE records[Len(records)].count

\* for layer in layers: for ... in get_data(layer, config, rowid)
RECURSIVE AllLayersRecords(_, _, _, _)
AllLayersRecords(loaded, j, config, rowid) ==
    IF j > Len(loaded) THEN <<>>
    ELSE LET records == get_data(loaded[j], config, rowid)
         IN  records \o AllLayersRecords(loaded, j + 1, config,
                                         RowidAfter(rowid, records))

\* One pass of the loop over indexconfig.items().
EntryRecords(loaded, config, rowid) ==
    IF config.selector = "_all"
    THEN AllLayersRecords(loaded, 1, config, rowid)
    ELSE LET found == LayersNamed(loaded, config.selector)
         IN  IF found = <<>> THEN <<>>
             ELSE get_data(found[1], config, rowid)

\* get_features() from the i-th entry on, run to its end.
RECURSIVE get_features(_, _, _, _)
get_features(loaded, indexconfig, i, rowid) ==
    IF i > Len(indexconfig) THEN <<>>
    ELSE LET records == EntryRecords(loaded, indexconfig[i], rowid)
         IN  records \o get_features(loaded, indexconfig, i + 1,
                                     RowidAfter(rowid, records))

\* get_columns(): the quoted names of every configured column.
get_columns(indexconfig) ==
    UNION {{Quote(c) : c \in Range(indexconfig[i].columns)} :
              i \in 1..Len(indexconfig)}

\* ','.join(get_columns()): a set is joined in its iteration order.
Orderings(S) ==
    {s \in [1..Cardinality(S) -> S] :
        \A i, j \in 1..Cardinality(S) : i # j => s[i] # s[j]}

\* ------------------------------------------------------ the index artifact

IndexDb == "index.db"

\* index.db: which tables exist, the columns of the fts4 table in their
\* order, the committed rows of both tables, and the connection (a worker
\* id) that holds the write transaction, 0 for none.
NoDb == [featureinfo |-> FALSE, search |-> FALSE, columns |-> <<>>,
         info |-> <<>>, docs |-> <<>>, writer |-> 0]

\* Another connection holds the write lock ("database is locked").
Busy(w) == db.writer \notin {0, w}

\* Closing a connection rolls its open transaction back.
Released(d, w) == IF d.writer = w THEN [d EXCEPT !.writer = 0] ELSE d

\* ------------------------------------------------------------ IndexBuilder

\* A QThread and the IndexBuilder moved to it, as build_index leaves them.
\* pc: "started" (the thread runs, IndexBuilder.build_index has not begun),
\* "dropped" (after line 55), "inserting" (the loop of line 108), "exec" (the
\* slot returned or raised, the thread is in its event loop), "finished" (the
\* thread ended), "gone" (the objects were destroyed under the running thread).
NewWorker(indexconfig) ==
    [pc |-> "started", indexconfig |-> indexconfig, entry |-> 1,
     queue |-> <<>>, rowid |-> 0, emitted |-> <<>>, txInfo |-> <<>>,
     txDocs |-> <<>>, conn |-> "none", quitReq |-> FALSE, stale |-> FALSE,
     orphan |-> FALSE, failed |-> "none"]

Building(W) == W.pc \in {"started", "dropped", "inserting"}

Running(W) == W.pc \in {"started", "dropped", "inserting", "exec"}

\* An exception leaves the slot.  The connection stays open, and with it the
\* transaction, until the builder is told to quit; a builder nothing refers
\* to any more is deallocated, and its connection with it.
Raised(W, exc) ==
    IF W.orphan
    THEN [W EXCEPT !.pc = "gone", !.failed = exc, !.conn = "closed",
                   !.txInfo = <<>>, !.txDocs = <<>>]
    ELSE [W EXCEPT !.pc = "exec", !.failed = exc]

DbAfterRaise(W, w) == IF W.orphan THEN Released(db, w) ELSE db

\* The generator get_features() resumed: the entries are entered one after
\* the other, each resolved against the layers loaded when it is entered,
\* until one has records to yield.
RECURSIVE Advance(_, _, _, _)
Advance(loaded, indexconfig, i, rowid) ==
    IF i > Len(indexconfig) THEN [entry |-> i, queue |-> <<>>]
    ELSE LET records == EntryRecords(loaded, indexconfig[i], rowid)
         IN  IF records # <<>> THEN [entry |-> i + 1, queue |-> records]
             ELSE Advance(loaded, indexconfig, i + 1, rowid)

Resume(W) ==
    IF W.queue # <<>> THEN [entry |-> W.entry, queue |-> W.queue]
    ELSE Advance(layers, W.indexconfig, W.entry, W.rowid)

\* Lines 51-55: connect, DROP TABLE IF EXISTS search / featureinfo.
BuilderDrop(w) ==
    LET W == workers[w] IN
    /\ ~crashed
    /\ W.pc = "started"
    /\ \/ /\ ~Busy(w)
          /\ db' = [db EXCEPT !.search = FALSE, !.featureinfo = FALSE,
                              !.columns = <<>>, !.info = <<>>, !.docs = <<>>]
          /\ workers' = [workers EXCEPT ![w].pc = "dropped",
                                        ![w].conn = "open"]
       \/ /\ Busy(w)
          /\ db' = DbAfterRaise(W, w)
          /\ workers' = [workers EXCEPT
                 ![w] = Raised([W EXCEPT !.conn = "open"], "OperationalError")]
    /\ UNCHANGED <<project, dbpath, searchbox, resultsView, indexthread,
                   mainQueue, layers, crashed, validation, lastSearch,
                   rankIn, rankOut>>

\* Lines 56-66: CREATE TABLE featureinfo, CREATE VIRTUAL TABLE search with
\* the configured columns.
BuilderCreate(w) ==
    LET W == workers[w] IN
    /\ ~crashed
    /\ W.pc = "dropped"
    /\ \/ /\ ~Busy(w) /\ ~db.featureinfo /\ ~db.search
          /\ \E columns \in Orderings(get_columns(W.indexconfig)) :
                db' = [db EXCEPT !.featureinfo = TRUE, !.search = TRUE,
                                 !.columns = columns]
          /\ workers' = [workers EXCEPT ![w].pc = "inserting"]
       \/ /\ Busy(w) \/ db.featureinfo \/ db.search
          /\ db' = DbAfterRaise(W, w)
          /\ workers' = [workers EXCEPT ![w] = Raised(W, "OperationalError")]
    /\ UNCHANGED <<project, dbpath, searchbox, resultsView, indexthread,
                   mainQueue, layers, crashed, validation, lastSearch,
                   rankIn, rankOut>>

\* The ids a connection sees in featureinfo: the committed ones and its own.
VisibleIds(W) ==
    {db.info[i].id : i \in 1..Len(db.info)}
      \cup {W.txInfo[i].id : i \in 1..Len(W.txInfo)}

\* Which exception, if any, the two INSERTs of one record raise.
InsertError(w, W, row) ==
    IF Busy(w) \/ ~db.featureinfo THEN "OperationalError"
    ELSE IF row.count \in VisibleIds(W) THEN "IntegrityError"
    ELSE IF ~db.search \/ ~(DOMAIN row.data \subseteq Range(db.columns))
         THEN "OperationalError"
    ELSE "none"

\* Lines 108-116, one pass: the generator yields a record, the record goes
\* to featureinfo and to search inside the connection's transaction.
BuilderInsert(w) ==
    LET W   == workers[w]
        gen == Resume(W)
        row == Head(gen.queue)
        Y   == [W EXCEPT !.entry = gen.entry, !.queue = Tail(gen.queue),
                         !.stale = W.stale /\ Tail(gen.queue) # <<>>,
                         !.rowid = RowidAfter(W.rowid, <<row>>),
                         !.emitted = Append(W.emitted, row.count)]
    IN
    /\ ~crashed
    /\ W.pc = "inserting"
    /\ gen.queue # <<>>
    /\ \/ /\ InsertError(w, W, row) = "none"
          /\ db' = [db EXCEPT !.writer = w]
          /\ workers' = [workers EXCEPT ![w] =
                [Y EXCEPT !.txInfo = Append(W.txInfo,
                              [id |-> row.count, layer |-> row.layer,
                               featureid |-> row.fid]),
                          !.txDocs = Append(W.txDocs,
                              [docid |-> row.count, text |-> row.data])]]
       \/ /\ InsertError(w, W, row) # "none"
          /\ db' = DbAfterRaise(W, w)
          /\ workers' = [workers EXCEPT ![w] =
                Raised(Y, InsertError(w, W, row))]
    /\ UNCHANGED <<project, dbpath, searchbox, resultsView, indexthread,
                   mainQueue, layers, crashed, validation, lastSearch,
                   rankIn, rankOut>>

\* The layers were removed under the generator: the next read of a layer or
\* a feature is a read of a deleted object, which may as well raise.
BuilderDangling(w) ==
    LET W == workers[w] IN
    /\ ~crashed
    /\ W.pc = "inserting"
    /\ W.stale
    /\ W.queue # <<>>
    /\ db' = DbAfterRaise(W, w)
    /\ workers' = [workers EXCEPT ![w] = Raised(W, "RuntimeError")]
    /\ UNCHANGED <<project, dbpath, searchbox, resultsView, indexthread,
                   mainQueue, layers, crashed, validation, lastSearch,
                   rankIn, rankOut>>

\* Lines 118-121 and quit(): commit, close, emit indexBuilt (queued to the
\* plugin), close again, emit finished (queued to the thread's quit).
BuilderCommit(w) ==
    LET W == workers[w] IN
    /\ ~crashed
    /\ W.pc = "inserting"
    /\ Resume(W).queue = <<>>
    /\ db' = [Released(db, w) EXCEPT !.info = db.info \o W.txInfo,
                                     !.docs = db.docs \o W.txDocs]
    /\ workers' = [workers EXCEPT ![w] =
          [W EXCEPT !.pc = IF W.orphan THEN "gone" ELSE "exec",
                    !.entry = Resume(W).entry,
                    !.txInfo = <<>>, !.txDocs = <<>>, !.conn = "closed"]]
    /\ mainQueue' = mainQueue \o <<[slot |-> "index_built", worker |-> w]>>
                      \o (IF W.orphan THEN <<>>
                          ELSE <<[slot |-> "quit", worker |-> w]>>)
    /\ UNCHANGED <<project, dbpath, searchbox, resultsView, indexthread,
                   layers, crashed, validation, lastSearch, rankIn, rankOut>>

\* The event loop of the thread was told to quit: the thread ends, its
\* finished signal runs IndexBuilder.quit (lines 123-125).
ThreadFinished(w) ==
    LET W == workers[w] IN
    /\ ~crashed
    /\ W.pc = "exec"
    /\ W.quitReq
    /\ db' = Released(db, w)
    /\ workers' = [workers EXCEPT ![w] =
          [W EXCEPT !.pc = "finished", !.conn = "closed",
                    !.txInfo = <<>>, !.txDocs = <<>>]]
    /\ mainQueue' = Append(mainQueue, [slot |-> "quit", worker |-> w])
    /\ UNCHANGED <<project, dbpath, searchbox, resultsView, indexthread,
                   layers, crashed, validation, lastSearch, rankIn, rankOut>>

\* --------------------------------------------------------------- queries

\* LIMIT 100
QueryLimit == 100

\* Pairs (p, w) of tokens of the vocabulary with p a proper prefix of w.
PrefixPairs == {<<"hyd", "hydrant">>}

\* What the searchbox may hold, in tokens; <<>> is the empty text.
QueryTexts == {<<>>, <<"hyd">>}

\* The match expression: "* ".join(text.split()) + "*" when the fuzzy box is
\* checked (every token a prefix term), the text itself otherwise.
MatchExpression(text, fuzzy) ==
    [i \in 1..Len(text) |-> [token |-> text[i], prefix |-> fuzzy]]

TermMatches(term, token) ==
    \/ term.token = token
    \/ term.prefix /\ <<term.token, token>> \in PrefixPairs

\* The tokens a row of the fts4 table holds in a column.
ColumnText(doc, column) ==
    IF column \in DOMAIN doc.text THEN doc.text[column] ELSE <<>>

\* Occurrences of a term in one column of one row.
Hits(doc, column, term) ==
    Cardinality({i \in 1..Len(ColumnText(doc, column)) :
                    TermMatches(term, ColumnText(doc, column)[i])})

\* search MATCH expr: every term occurs in some column of the row.
RowMatches(d, doc, expr) ==
    \A p \in 1..Len(expr) :
        \E c \in 1..Len(d.columns) : Hits(doc, d.columns[c], expr[p]) > 0

RECURSIVE SumHits(_, _, _, _)
SumHits(docs, k, column, term) ==
    IF k = 0 THEN 0
    ELSE SumHits(docs, k - 1, column, term) + Hits(docs[k], column, term)

\* matchinfo(search) of a row: the phrase and column counts, then for every
\* phrase and every column the hits in this row, the hits in all rows and
\* the rows with a hit.
matchinfo(d, doc, expr) ==
    LET nc == Len(d.columns)
        stat(k) ==
            LET term   == expr[((k - 1) \div (3 * nc)) + 1]
                column == d.columns[(((k - 1) \div 3) % nc) + 1]
                which  == (k - 1) % 3
            IN  IF which = 0 THEN Hits(doc, column, term)
                ELSE IF which = 1
                     THEN SumHits(d.docs, Len(d.docs), column, term)
                ELSE Cardinality({j \in 1..Len(d.docs) :
                                     Hits(d.docs[j], column, term) > 0})
    IN  <<Len(expr), nc>> \o [k \in 1..(3 * Len(expr) * nc) |-> stat(k)]

\* snippet(search, '[', ']'): the text of the first column with a hit, the
\* matched tokens marked.
snippet(d, doc, expr) ==
    LET hit(c) == \E p \in 1..Len(expr) : Hits(doc, d.columns[c], expr[p]) > 0
        c0     == CHOOSE c \in 1..Len(d.columns) :
                     hit(c) /\ \A b \in 1..(c - 1) : ~hit(b)
        tokens == ColumnText(doc, d.columns[c0])
    IN  [i \in 1..Len(tokens) |->
            [token |-> tokens[i],
             marked |-> \E p \in 1..Len(expr) :
                            TermMatches(expr[p], tokens[i])]]

\* The rows of search JOIN featureinfo ON search.docid = featureinfo.id
\* WHERE search MATCH expr, from the k-th row of search on: the full-text
\* table is walked in docid order, which is the order its rows were stored in.
\* The query selects layer, featureid and snippet; the row's matchinfo is kept
\* beside them as what rank would be handed for that row.
RECURSIVE JoinFrom(_, _, _)
JoinFrom(d, k, expr) ==
    IF k > Len(d.docs) THEN <<>>
    ELSE LET doc   == d.docs[k]
             infos == SelectSeq(d.info, LAMBDA r : r.id = doc.docid)
         IN  (IF RowMatches(d, doc, expr)
              THEN [i \in 1..Len(infos) |->
                       [layer |-> infos[i].layer,
                        featureid |-> infos[i].featureid,
                        snippet |-> snippet(d, doc, expr),
                        matchinfo |-> matchinfo(d, doc, expr)]]
              ELSE <<>>) \o JoinFrom(d, k + 1, expr)

\* The first n rows of a result.
Limit(rows, n) == SubSeq(rows, 1, IF Len(rows) <= n THEN Len(rows) ELSE n)

\* c.execute(query).fetchall()
Fetchall(d, expr) == Limit(JoinFrom(d, 1, expr), QueryLimit)

\* An entry of the results list: a message, or a hit with its data
\* (layer, featureid, snippet).
Message(kind) == [kind |-> kind, data |-> <<>>]

HitItem(row) ==
    [kind |-> "hit", data |-> <<row.layer, row.featureid, row.snippet>>]

NoSearch == [called |-> FALSE, text |-> <<>>, fuzzy |-> FALSE,
             raised |-> "none", connected |-> FALSE, closed |-> FALSE,
             rows |-> <<>>]

\* --------------------------------------------------------- SearchPlugin

\* search(text) with the fuzzy box checked or not (lines 220-248).
\* lastSearch records what the call did: whether sqlite3.connect ran, whether
\* db.close() ran, the exception that left the handler, the rows fetched.
search(text, fuzzy) ==
    LET call == [called |-> TRUE, text |-> text, fuzzy |-> fuzzy,
                 raised |-> "none", connected |-> TRUE, closed |-> FALSE,
                 rows |-> <<>>]
        expr == MatchExpression(text, fuzzy)
        rows == Fetchall(db, expr)
    IN
    /\ ~crashed
    /\ IF dbpath = "None"
       THEN \* sqlite3.connect(None)
            /\ lastSearch' = [call EXCEPT !.raised = "TypeError",
                                          !.connected = FALSE]
            /\ UNCHANGED resultsView
       ELSE IF text = <<>>
       THEN /\ lastSearch' = call
            /\ resultsView' = [enabled |-> FALSE, items |-> <<>>]
       ELSE IF ~db.search \/ ~db.featureinfo
       THEN \* no such table
            /\ lastSearch' = [call EXCEPT !.raised = "OperationalError"]
            /\ resultsView' = [enabled |-> FALSE, items |-> <<>>]
       ELSE /\ lastSearch' = [call EXCEPT !.closed = TRUE, !.rows = rows]
            /\ resultsView' =
                 IF rows = <<>>
                 THEN [enabled |-> FALSE, items |-> <<Message("No Results")>>]
                 ELSE [enabled |-> TRUE,
                       items |-> [i \in 1..Len(rows) |-> HitItem(rows[i])]]
    /\ UNCHANGED <<project, dbpath, searchbox, indexthread, workers,
                   mainQueue, layers, db, crashed, validation, rankIn,
                   rankOut>>

\* index_built(dbpath, timing), lines 163-167.
index_built ==
    /\ dbpath' = IndexDb
    /\ resultsView' = [resultsView EXCEPT !.items = <<>>]
    /\ searchbox' = [searchbox EXCEPT !.enabled = TRUE]
    /\ UNCHANGED workers

\* QThread.quit of worker w, as a queued call: it reaches the thread object
\* the plugin still holds; the connections of a destroyed one are gone.
thread_quit(w) ==
    /\ workers' = IF w = indexthread
                  THEN [workers EXCEPT ![w].quitReq = TRUE]
                  ELSE workers
    /\ UNCHANGED <<dbpath, resultsView, searchbox>>

\* The main thread's event loop delivers the next queued call.
ProcessEvent ==
    /\ ~crashed
    /\ mainQueue # <<>>
    /\ mainQueue' = Tail(mainQueue)
    /\ IF Head(mainQueue).slot = "index_built"
       THEN index_built
       ELSE thread_quit(Head(mainQueue).worker)
    /\ UNCHANGED <<project, indexthread, layers, db, crashed, validation,
                   lastSearch, rankIn, rankOut>>

\* The thread object the plugin held is replaced while its thread runs: the
\* QThread and its builder are destroyed under the thread.  In its event loop
\* the thread is gone with them (the connection rolls back); inside
\* IndexBuilder.build_index the frame keeps the builder alive to its end.
Orphaned(W) ==
    IF W.pc = "exec"
    THEN [W EXCEPT !.pc = "gone", !.conn = "closed", !.txInfo = <<>>,
                   !.txDocs = <<>>]
    ELSE [W EXCEPT !.orphan = TRUE]

\* build_index(project), lines 187-218.
build_index(p) ==
    LET v == valid_search_settings(p)
        old == indexthread
        new == Len(workers) + 1
        held == IF old = 0 THEN FALSE ELSE Running(workers[old])
        building == [enabled |-> FALSE,
                     items |-> Append(resultsView.items,
                                      Message("building search index..."))]
    IN
    /\ validation' = [called |-> TRUE, ok |-> v.ok, settings |-> v.settings,
                      raised |-> "none"]
    /\ IF ~v.ok
       THEN /\ searchbox' = [enabled |-> FALSE, visible |-> FALSE]
            /\ resultsView' =
                 [enabled |-> FALSE,
                  items |-> <<Message("Invalid search config found")>>]
            /\ UNCHANGED <<indexthread, workers, db, crashed>>
       ELSE /\ Len(workers) < MaxBuilds
            /\ searchbox' = [searchbox EXCEPT !.enabled = FALSE]
            /\ resultsView' = building
            /\ \/ /\ ~held
                  /\ indexthread' = new
                  /\ workers' = Append(workers, NewWorker(v.settings))
                  /\ UNCHANGED <<db, crashed>>
               \/ \* QThread: Destroyed while thread is still running
                  /\ held
                  /\ crashed' = TRUE
                  /\ UNCHANGED <<indexthread, workers, db>>
               \/ /\ held
                  /\ indexthread' = new
                  /\ workers' = Append([workers EXCEPT
                                           ![old] = Orphaned(workers[old])],
                                       NewWorker(v.settings))
                  /\ db' = IF workers[old].pc = "exec"
                           THEN Released(db, old) ELSE db
                  /\ UNCHANGED crashed

\* project_loaded(project), lines 180-182: the workspace and its layers are
\* loaded.
project_loaded(p) ==
    /\ ~crashed
    /\ project' = p
    /\ layers' = VectorLayers
    /\ build_index(p)
    /\ UNCHANGED <<dbpath, mainQueue, lastSearch, rankIn, rankOut>>

\* rebuild_index(), lines 184-185, the link of rebuildLabel.  Without a
\* project, lines 188-190 run and project.settings raises AttributeError.
rebuild_index ==
    /\ ~crashed
    /\ IF project.loaded
       THEN build_index(project)
       ELSE /\ searchbox' = [searchbox EXCEPT !.enabled = FALSE]
            /\ resultsView' =
                 [enabled |-> FALSE,
                  items |-> Append(resultsView.items,
                                   Message("building search index..."))]
            /\ Len(resultsView.items) < MaxMessages
            /\ validation' = [NoValidation EXCEPT !.raised = "AttributeError"]
            /\ UNCHANGED <<indexthread, workers, db, crashed>>
    /\ UNCHANGED <<project, layers, dbpath, mainQueue, lastSearch, rankIn,
                   rankOut>>

\* QgsProject.removeAll: the workspace is torn down.  The signal is connected
\* to the quit of the thread the plugin holds (line 211); the layers go.
removeAll ==
    /\ ~crashed
    /\ layers' = <<>>
    /\ workers' = [w \in 1..Len(workers) |->
          [workers[w] EXCEPT
              !.quitReq = @ \/ (w = indexthread /\ Running(workers[w])),
              !.stale = @ \/ (Building(workers[w])
                               /\ workers[w].queue # <<>>)]]
    /\ UNCHANGED <<project, dbpath, searchbox, resultsView, indexthread,
                   mainQueue, db, crashed, validation, lastSearch, rankIn,
                   rankOut>>

\* ------------------------------------------------------ specifications

\* The workspaces of the plugin's specification: every layer under one
\* column, and settings with an entry without 'columns' behind a well-formed
\* one.
Workspaces ==
    {[loaded |-> TRUE, hasSearch |-> TRUE, search |-> m] : m \in
       { << [selector |-> "_all", hasColumns |-> TRUE, columns |-> <<"name">>] >>,
         << [selector |-> "roads", hasColumns |-> TRUE, columns |-> <<"name">>],
            [selector |-> "_all", hasColumns |-> FALSE, columns |-> <<>>] >>
       }}

NoRankIn == [matchinfo |-> <<>>, weights |-> <<>>]

\* The plugin as __init__ leaves it (lines 142-157), no index file yet.
InitPlugin ==
    /\ project = NoProject
    /\ dbpath = "None"
    /\ searchbox = [enabled |-> TRUE, visible |-> TRUE]
    /\ resultsView = [enabled |-> TRUE, items |-> <<>>]
    /\ indexthread = 0
    /\ workers = <<>>
    /\ mainQueue = <<>>
    /\ layers = <<>>
    /\ db = NoDb
    /\ crashed = FALSE
    /\ validation = NoValidation
    /\ lastSearch = NoSearch

Init ==
    /\ InitPlugin
    /\ rankIn = NoRankIn
    /\ rankOut = NoRank

Next ==
    \/ \E p \in Workspaces : project_loaded(p)
    \/ rebuild_index
    \/ removeAll
    \/ \E text \in QueryTexts, fuzzy \in BOOLEAN : search(text, fuzzy)
    \/ ProcessEvent
    \/ \E w \in 1..Len(workers) : BuilderDrop(w)
    \/ \E w \in 1..Len(workers) : BuilderCreate(w)
    \/ \E w \in 1..Len(workers) : BuilderInsert(w)
    \/ \E w \in 1..Len(workers) : BuilderDangling(w)
    \/ \E w \in 1..Len(workers) : BuilderCommit(w)
    \/ \E w \in 1..Len(workers) : ThreadFinished(w)

Spec == Init /\ [][Next]_vars

\* One workspace, any settings, loaded once and built by its one worker.
NextBuild ==
    \/ ~validation.called /\ \E p \in AllProjects : project_loaded(p)
    \/ ProcessEvent
    \/ \E w \in 1..Len(workers) : BuilderDrop(w)
    \/ \E w \in 1..Len(workers) : BuilderCreate(w)
    \/ \E w \in 1..Len(workers) : BuilderInsert(w)
    \/ \E w \in 1..Len(workers) : BuilderCommit(w)
    \/ \E w \in 1..Len(workers) : ThreadFinished(w)

SpecBuild == Init /\ [][NextBuild]_vars

\* The rank function on its own: match statistics and weights in, score out.
StatValues == {0, 2, 5, 10}

RankInputs ==
    {[matchinfo |-> <<1, n>> \o stats, weights |-> weights] :
        n \in 0..MaxPositions, stats \in SeqsUpTo(StatValues, 3 * MaxPositions),
        weights \in {DefaultWeights, <<10>>}}

RankCall ==
    /\ ~rankOut.called
    /\ \E floordiv \in BOOLEAN :
          rankOut' = rank(rankIn.matchinfo, rankIn.weights, floordiv)
    /\ UNCHANGED <<rankIn, plugin_vars>>

InitRank ==
    /\ InitPlugin
    /\ rankIn \in {i \in RankInputs : Len(i.matchinfo) = 2 + 3 * i.matchinfo[2]}
    /\ rankOut = NoRank

SpecRank == InitRank /\ [][RankCall]_vars

\* ------------------------------------------------------------- claims

Done(W) == W.pc \in {"exec", "finished"} /\ W.failed = "none"

\* C1: within one run of IndexBuilder.build_index the synthetic ids of the
\* emitted records are strictly increasing in emission order, so no id is
\* used twice, whatever the configuration.
IdsStrictlyIncreasing ==
    \A w \in 1..Len(workers) :
        \A i, j \in 1..Len(workers[w].emitted) :
            i < j => workers[w].emitted[i] < workers[w].emitted[j]

\* A completed build over a layer that is not loaded, "_all" with a layer
\* that has none of its columns, and a named layer: three records from two
\* layers.
IdsAcrossLayers ==
    \E w \in 1..Len(workers) :
        /\ Done(workers[w])
        /\ Len(workers[w].indexconfig) = 3
        /\ workers[w].indexconfig[1].selector = "ghost"
        /\ workers[w].indexconfig[2].selector = "_all"
        /\ workers[w].indexconfig[2].columns = <<"kind">>
        /\ workers[w].indexconfig[3].selector = "roads"
        /\ workers[w].emitted = <<1, 2, 3>>
        /\ {db.info[i].layer : i \in 1..Len(db.info)} = {"parks", "roads"}

\* C2: search returns at most 100 rows, in descending order of the rank
\* score under the default weights.
RowsRankedDescending ==
    /\ Len(lastSearch.rows) <= QueryLimit
    /\ \A i, j \in 1..Len(lastSearch.rows) :
          i < j => RatGeq(RankScore(lastSearch.rows[i].matchinfo, DefaultWeights),
                          RankScore(lastSearch.rows[j].matchinfo, DefaultWeights))

\* The sum C3 states: hits in the row times weight over the rows with a hit,
\* a position with no such row adding 0.
ClaimedTerm(x, w) == IF x[3] # 0 THEN <<x[1] * w, x[3]>> ELSE <<0, 1>>

RECURSIVE ClaimedSum(_, _, _)
ClaimedSum(m, weights, k) ==
    IF k = 0 THEN <<0, 1>>
    ELSE RatAdd(ClaimedSum(m, weights, k - 1),
                ClaimedTerm(Triple(m, k), weights[k]))

\* C3: a returned rank is the sum over the triples, paired with the weights,
\* of hits_in_row * weight / docs_containing_term.
RankIsSumOverDocs ==
    (rankOut.called /\ rankOut.raised = "none") =>
        RatEq(rankOut.score,
              ClaimedSum(rankIn.matchinfo, rankIn.weights,
                         Positions(rankIn.matchinfo, rankIn.weights)))

\* C4: no call of search ends in an exception; a failed query is an empty
\* result.
QueryFailureContained ==
    lastSearch.called => lastSearch.raised = "none"

\* C5: search with empty text returns nothing and opens no connection.
EmptyTextOpensNothing ==
    (lastSearch.called /\ lastSearch.text = <<>>) =>
        /\ lastSearch.raised = "none"
        /\ ~lastSearch.connected
        /\ lastSearch.rows = <<>>

\* Between the connect of line 52 and the commit of line 118.
InsideBuild(W) == W.pc \in {"dropped", "inserting"}

\* C6: never two workers inside IndexBuilder.build_index at once.
OneBuildInFlight ==
    Cardinality({w \in 1..Len(workers) : InsideBuild(workers[w])}) <= 1

\* C7: once the teardown reached a build in flight, its worker inserts no
\* further record and does not commit.
TeardownStopsBuild ==
    [][\A w \in 1..Len(workers) :
          (workers[w].quitReq /\ Building(workers[w])) =>
             /\ workers'[w].emitted = workers[w].emitted
             /\ ~(workers[w].pc = "inserting"
                  /\ workers'[w].pc \in {"exec", "gone"}
                  /\ workers'[w].failed = "none")]_vars

MissingColumns(p) ==
    ~p.hasSearch \/ \E i \in 1..Len(p.search) : ~p.search[i].hasColumns

\* C8: settings in which 'search' or some entry's 'columns' is missing are
\* invalid with an empty mapping, and build_index starts no worker for them.
InvalidSettingsStartNothing ==
    [][(project'.loaded /\ MissingColumns(project')
        /\ (project' # project \/ validation' # validation)) =>
          /\ validation'.called
          /\ ~validation'.ok
          /\ validation'.settings = <<>>
          /\ workers' = workers
          /\ indexthread' = indexthread]_vars

\* Rejected settings whose first two entries are well-formed and whose last
\* has no 'columns'.
RejectedBehindValidEntries ==
    /\ validation.called /\ ~validation.ok /\ validation.settings = <<>>
    /\ Len(project.search) = 3
    /\ project.search[1].hasColumns /\ project.search[2].hasColumns
    /\ ~project.search[3].hasColumns
    /\ workers = <<>>
    /\ ~searchbox.visible

\* C9: after a completed build no (layer, feature id) pair is in two rows of
\* the lookup table.
OneRowPerFeature ==
    (\E w \in 1..Len(workers) : Done(workers[w])) =>
        \A i, j \in 1..Len(db.info) :
            i # j => <<db.info[i].layer, db.info[i].featureid>>
                       # <<db.info[j].layer, db.info[j].featureid>>

\* C10: while a build is started and not committed, the search box is not
\* enabled.
SearchboxOffWhileBuilding ==
    (\E w \in 1..Len(workers) : Building(workers[w])) => ~searchbox.enabled

====
